---- MODULE Spec2Model ----
(***************************************************************************)
(* Model of src/src/Minesweeper.ts: the Minesweeper class that generates a *)
(* mine field, annotates it with neighbour counts and reveals a first      *)
(* cell.  Cells are the strings of the source, kept as sequences of        *)
(* characters in which an emote name is one element, so that spoilerize,   *)
(* slice(2, -2), includes("||") and === act on them as they do on the      *)
(* strings.  Coordinates are 0-based as in the source.                     *)
(***************************************************************************)
EXTENDS Integers, Sequences, FiniteSets, TLC

\* ---- bounds of the model ----
MaxRows == 3
MaxCols == 3
MaxMines == 2
MaxRuns == 2

\* ---- program constants ----
DefaultRows == 9
DefaultColumns == 9
DefaultMines == 10

VARIABLES opts, rows, columns, mines, spaces, revealFirstCell, zeroFirstCell,
          returnType, matrix, safeCells, caller, pc, i, stack, recurse,
          firstCell, result, run

vars == <<opts, rows, columns, mines, spaces, revealFirstCell, zeroFirstCell,
          returnType, matrix, safeCells, caller, pc, i, stack, recurse,
          firstCell, result, run>>

config == <<opts, rows, columns, mines, spaces, revealFirstCell,
            zeroFirstCell, returnType, caller>>

\* ---- strings ----
emote == "boom"

numberNames == <<"zero", "one", "two", "three", "four", "five", "six",
                 "seven", "eight">>

\* spoilerize(str) with the instance's spaces flag passed as sp
spoilerize(sp, str) ==
    IF sp THEN <<"|", "|", " ", ":", str, ":", " ", "|", "|">>
          ELSE <<"|", "|", ":", str, ":", "|", "|">>

\* this.types.mine and this.types.numbers[k]
typesMine == spoilerize(spaces, emote)
typesNumbers(k) == spoilerize(spaces, numberNames[k + 1])

\* String.prototype.slice(2, -2)
slice2(s) == SubSeq(s, 3, Len(s) - 2)

\* String.prototype.includes("||")
includesBars(s) == \E k \in 1..(Len(s) - 1) : s[k] = "|" /\ s[k + 1] = "|"

\* (opts && opts.x) || d for a numeric option: 0 is falsy
orDefault(v, d) == IF v = 0 THEN d ELSE v

\* ---- the matrix ----
At(m, x, y) == m[x + 1][y + 1]

SetAt(m, x, y, v) == [m EXCEPT ![x + 1][y + 1] = v]

\* coordinates of matrix m in row-major order (the order of map and forEach)
RowMajor(m) ==
    [k \in 1..(Len(m) * columns) |->
        [x |-> (k - 1) \div columns, y |-> (k - 1) % columns]]

Coords(m) == {RowMajor(m)[k] : k \in 1..(Len(m) * columns)}


\* ---- the methods of the class, as functions of the state they read ----

\* constructor line 99: this.mines = (opts && opts.mines) || 10
constructMines(v) == orDefault(v, DefaultMines)

\* the gate with < for <=
tooDenseStrict(r, c, n) == r * c < n * 2

\* start, line 282: the validity gate
tooDense(r, c, n) == r * c <= n * 2

\* generateEmptyMatrix on a matrix emptied first
generateEmptyMatrixFresh(m) ==
    [r \in 1..rows |-> [c \in 1..columns |-> typesNumbers(0)]]

\* generateEmptyMatrix: push `rows` arrays of `columns` zero strings onto m
generateEmptyMatrix(m) ==
    m \o [r \in 1..rows |-> [c \in 1..columns |-> typesNumbers(0)]]

\* plantIteration without the i-- of line 141: a drawn mine uses up an iteration
plantIterationNoRedraw(m, n, x, y) ==
    IF At(m, x, y) = typesMine
        THEN [matrix |-> m, i |-> n + 1]
        ELSE [matrix |-> SetAt(m, x, y, typesMine), i |-> n + 1]

\* one iteration of the loop of plantMines with the draws x, y and counter n:
\* a drawn mine costs i-- and the loop's i++, another cell becomes a mine
plantIteration(m, n, x, y) ==
    IF At(m, x, y) = typesMine
        THEN [matrix |-> m, i |-> (n - 1) + 1]
        ELSE [matrix |-> SetAt(m, x, y, typesMine), i |-> n + 1]

\* +(boolean)
num(b) == IF b THEN 1 ELSE 0

\* getNumberOfMines without the bottom right neighbour (line 189)
getNumberOfMinesNoBottomRight(m, x, y) ==
    IF At(m, x, y) = typesMine THEN typesMine
    ELSE
        LET hasLeft == y > 0
            hasRight == y < columns - 1
            hasTop == x > 0
            hasBottom == x < rows - 1
            counter ==
                  num(hasTop /\ hasLeft /\ At(m, x - 1, y - 1) = typesMine)
                + num(hasTop /\ At(m, x - 1, y) = typesMine)
                + num(hasTop /\ hasRight /\ At(m, x - 1, y + 1) = typesMine)
                + num(hasLeft /\ At(m, x, y - 1) = typesMine)
                + num(hasRight /\ At(m, x, y + 1) = typesMine)
                + num(hasBottom /\ hasLeft /\ At(m, x + 1, y - 1) = typesMine)
                + num(hasBottom /\ At(m, x + 1, y) = typesMine)
        IN  typesNumbers(counter)

\* getNumberOfMines(x, y): the string it returns
getNumberOfMines(m, x, y) ==
    IF At(m, x, y) = typesMine THEN typesMine
    ELSE
        LET hasLeft == y > 0
            hasRight == y < columns - 1
            hasTop == x > 0
            hasBottom == x < rows - 1
            counter ==
                  num(hasTop /\ hasLeft /\ At(m, x - 1, y - 1) = typesMine)
                + num(hasTop /\ At(m, x - 1, y) = typesMine)
                + num(hasTop /\ hasRight /\ At(m, x - 1, y + 1) = typesMine)
                + num(hasLeft /\ At(m, x, y - 1) = typesMine)
                + num(hasRight /\ At(m, x, y + 1) = typesMine)
                + num(hasBottom /\ hasLeft /\ At(m, x + 1, y - 1) = typesMine)
                + num(hasBottom /\ At(m, x + 1, y) = typesMine)
                + num(hasBottom /\ hasRight /\ At(m, x + 1, y + 1) = typesMine)
        IN  typesNumbers(counter)

\* the push of line 159 made before the mine test of line 155
pushesSafeCellAlways(m, c) == TRUE

\* getNumberOfMines(x, y): whether it pushes {x, y} onto safeCells
pushesSafeCell(m, c) == At(m, c.x, c.y) # typesMine

\* populate: the mapped matrix, and safeCells after the calls in map order
populateMatrix(m) ==
    [r \in 1..Len(m) |-> [c \in 1..Len(m[r]) |-> getNumberOfMines(m, r - 1, c - 1)]]

populateSafeCells(m, sc) ==
    sc \o SelectSeq(RowMajor(m), LAMBDA c : pushesSafeCell(m, c))

\* the registry taken unfiltered
zeroCellsOfUnfiltered(m, sc) == sc

\* revealFirst, line 219: the zero cells of the registry
zeroCellsOf(m, sc) ==
    SelectSeq(sc, LAMBDA c : At(m, c.x, c.y) = typesNumbers(0))

\* revealFirst, line 220: whether the zero-start branch is taken
takesZeroBranch(zf, zc) == zf /\ Len(zc) > 0

\* every cell taken for a spoiler
isSpoilerAlways(m, x, y) == TRUE

\* revealSurroundings, line 252
isSpoiler(m, x, y) == includesBars(At(m, x, y))

Max(a, b) == IF a >= b THEN a ELSE b
Min(a, b) == IF a <= b THEN a ELSE b

\* revealSurroundings, lines 256-259: whether (x, y) is in the loops' range
inRange(c, x, y) ==
    /\ Max(0, c.x - 1) <= x /\ x <= Min(rows - 1, c.x + 1)
    /\ Max(0, c.y - 1) <= y /\ y <= Min(columns - 1, c.y + 1)

\* revealSurroundings, lines 262-271: the matrix after the two loops
surroundMatrix(m, c) ==
    [r \in 1..Len(m) |-> [k \in 1..Len(m[r]) |->
        IF inRange(c, r - 1, k - 1) /\ isSpoiler(m, r - 1, k - 1)
            THEN slice2(m[r][k])
            ELSE m[r][k]]]

\* zeroCells without the test of line 265: every masked cell met is recorded
surroundZeroCellsAnyMasked(m, c) ==
    SelectSeq(RowMajor(m), LAMBDA d :
        /\ inRange(c, d.x, d.y)
        /\ isSpoiler(m, d.x, d.y))

\* zeroCells with the test of line 265 made outside the isSpoiler test: a zero
\* cell is recorded whether it is masked or not
surroundZeroCellsRevisit(m, c) ==
    SelectSeq(RowMajor(m), LAMBDA d :
        /\ inRange(c, d.x, d.y)
        /\ At(m, d.x, d.y) \in {typesNumbers(0), slice2(typesNumbers(0))})

\* revealSurroundings, lines 260-267: zeroCells after the two loops
surroundZeroCells(m, c) ==
    SelectSeq(RowMajor(m), LAMBDA d :
        /\ inRange(c, d.x, d.y)
        /\ isSpoiler(m, d.x, d.y)
        /\ At(m, d.x, d.y) = typesNumbers(0))

\* only the first recorded zero cell is expanded
pendingCallsFirstOnly(rec, zc, rest) ==
    (IF rec /\ Len(zc) > 0 THEN <<zc[1]>> ELSE <<>>) \o rest

\* revealSurroundings, lines 273-275: the calls still to make, depth first
pendingCalls(rec, zc, rest) == (IF rec THEN zc ELSE <<>>) \o rest

\* Array.prototype.join
RECURSIVE join(_, _)
join(ss, sep) ==
    IF Len(ss) = 0 THEN <<>>
    ELSE IF Len(ss) = 1 THEN ss[1]
    ELSE ss[1] \o sep \o join(Tail(ss), sep)

\* getTextRepresentation
getTextRepresentation(m) ==
    LET separator == IF spaces THEN <<" ">> ELSE <<>>
    IN  join([r \in 1..Len(m) |-> join(m[r], separator)], <<"\n">>)

\* the three backquotes of line 295, one element each
fence == <<"backquote", "backquote", "backquote">>

\* the value start returns: kind is "null", "string" or "matrix"
noResult == [kind |-> "none", text |-> <<>>, grid |-> <<>>]
nullResult == [kind |-> "null", text |-> <<>>, grid |-> <<>>]

startResult(m) ==
    CASE returnType = "emoji" ->
            [kind |-> "string", text |-> getTextRepresentation(m), grid |-> <<>>]
      [] returnType = "code" ->
            [kind |-> "string",
             text |-> fence \o getTextRepresentation(m) \o fence,
             grid |-> <<>>]
      [] returnType = "matrix" ->
            [kind |-> "matrix", text |-> <<>>, grid |-> m]


\* ---- the state after construction ----

ReturnTypes == {"emoji", "code", "matrix"}

noCell == [x |-> -1, y |-> -1]

\* new Minesweeper(opts); caller is who drives the instance: a client calling
\* start(), or a test calling the stages itself on a default-flag instance.
\* The options are drawn around the defaults: the two reveal flags take every
\* value with the default returnType, returnType takes every value with the
\* default reveal flags.
Init ==
    /\ opts \in [rows : 1..MaxRows, columns : 1..MaxCols, mines : 0..MaxMines,
                 revealFirstCell : BOOLEAN, zeroFirstCell : BOOLEAN,
                 spaces : BOOLEAN, returnType : ReturnTypes]
    /\ caller \in {"start", "test"}
    /\ (caller = "test" \/ opts.returnType # "emoji") =>
          /\ opts.revealFirstCell = FALSE
          /\ opts.zeroFirstCell = TRUE
    /\ caller = "test" => opts.returnType = "emoji"
    /\ rows = orDefault(opts.rows, DefaultRows)
    /\ columns = orDefault(opts.columns, DefaultColumns)
    /\ mines = constructMines(opts.mines)
    /\ revealFirstCell = opts.revealFirstCell
    /\ zeroFirstCell = opts.zeroFirstCell
    /\ spaces = opts.spaces
    /\ returnType = opts.returnType
    /\ matrix = <<>>
    /\ safeCells = <<>>
    /\ pc = "idle"
    /\ i = 0
    /\ stack = <<>>
    /\ recurse = TRUE
    /\ firstCell = noCell
    /\ result = noResult
    /\ run = 0

\* ---- start() and the stages it runs ----

\* start(), lines 282-286: the gate, then generateEmptyMatrix
StartBody ==
    /\ run' = run + 1
    /\ i' = 0
    /\ firstCell' = noCell
    /\ IF tooDense(rows, columns, mines)
          THEN /\ result' = nullResult
               /\ pc' = "done"
               /\ UNCHANGED matrix
          ELSE /\ result' = noResult
               /\ pc' = "plant"
               /\ matrix' = generateEmptyMatrix(matrix)
    /\ UNCHANGED <<config, safeCells, stack, recurse>>

Start ==
    /\ pc = "idle"
    /\ caller = "start"
    /\ StartBody

\* a later call of start() on the same instance
StartAgain ==
    /\ pc = "done"
    /\ caller = "start"
    /\ run < MaxRuns
    /\ StartBody

\* plantMines: one iteration of its loop, with the two random draws
PlantMine ==
    /\ pc = "plant"
    /\ i < mines
    /\ \E x \in 0..(rows - 1), y \in 0..(columns - 1) :
          LET out == plantIteration(matrix, i, x, y)
          IN  /\ matrix' = out.matrix
              /\ i' = out.i
    /\ UNCHANGED <<config, safeCells, pc, stack, recurse, firstCell, result, run>>

\* plantMines: the loop ends
PlantMinesReturn ==
    /\ pc = "plant"
    /\ ~(i < mines)
    /\ pc' = "populate"
    /\ UNCHANGED <<config, matrix, safeCells, i, stack, recurse, firstCell,
                   result, run>>

\* populate
Populate ==
    /\ pc = "populate"
    /\ matrix' = populateMatrix(matrix)
    /\ safeCells' = populateSafeCells(matrix, safeCells)
    /\ pc' = IF caller = "start" THEN "reveal" ELSE "pick"
    /\ UNCHANGED <<config, i, stack, recurse, firstCell, result, run>>

\* revealFirst, lines 215-217
RevealFirstDisabled ==
    /\ pc = "reveal"
    /\ ~revealFirstCell
    /\ firstCell' = noCell
    /\ pc' = "render"
    /\ UNCHANGED <<config, matrix, safeCells, i, stack, recurse, result, run>>

\* revealFirst, lines 219-229: a zero cell is drawn and unmasked, and
\* revealSurroundings is called on it
RevealFirstZero ==
    /\ pc = "reveal"
    /\ revealFirstCell
    /\ LET zeroCells == zeroCellsOf(matrix, safeCells)
       IN  /\ takesZeroBranch(zeroFirstCell, zeroCells)
           /\ \E k \in 1..Len(zeroCells) :
                 LET safeCell == zeroCells[k]
                 IN  /\ matrix' = SetAt(matrix, safeCell.x, safeCell.y,
                                        slice2(At(matrix, safeCell.x, safeCell.y)))
                     /\ stack' = <<safeCell>>
                     /\ firstCell' = [x |-> safeCell.x, y |-> safeCell.y]
    /\ recurse' = TRUE
    /\ pc' = "surround"
    /\ UNCHANGED <<config, safeCells, i, result, run>>

\* revealFirst, lines 232-243: any safe cell is drawn and unmasked
RevealFirstAny ==
    /\ pc = "reveal"
    /\ revealFirstCell
    /\ ~takesZeroBranch(zeroFirstCell, zeroCellsOf(matrix, safeCells))
    /\ \E k \in 1..Len(safeCells) :
          LET safeCell == safeCells[k]
          IN  /\ matrix' = SetAt(matrix, safeCell.x, safeCell.y,
                                 slice2(At(matrix, safeCell.x, safeCell.y)))
              /\ firstCell' = [x |-> safeCell.x, y |-> safeCell.y]
    /\ pc' = "render"
    /\ UNCHANGED <<config, safeCells, i, stack, recurse, result, run>>

\* one call of revealSurroundings: the cell on top of the pending calls
RevealSurroundings ==
    /\ pc = "surround"
    /\ stack # <<>>
    /\ LET c == Head(stack)
       IN  /\ matrix' = surroundMatrix(matrix, c)
           /\ stack' = pendingCalls(recurse, surroundZeroCells(matrix, c), Tail(stack))
    /\ pc' = IF stack' # <<>> THEN "surround"
             ELSE IF caller = "start" THEN "render" ELSE "done"
    /\ UNCHANGED <<config, safeCells, i, recurse, firstCell, result, run>>

\* start(), lines 291-298: the value returned
Render ==
    /\ pc = "render"
    /\ result' = startResult(matrix)
    /\ pc' = "done"
    /\ UNCHANGED <<config, matrix, safeCells, i, stack, recurse, firstCell, run>>

\* ---- the stages as the tests call them ----

\* generateEmptyMatrix() on a new instance
TestGenerateEmptyMatrix ==
    /\ pc = "idle"
    /\ caller = "test"
    /\ matrix' = generateEmptyMatrix(matrix)
    /\ pc' = "generated"
    /\ UNCHANGED <<config, safeCells, i, stack, recurse, firstCell, result, run>>

\* plantMines() on an instance whose options pass the gate, populate() follows
TestPlantMines ==
    /\ pc = "generated"
    /\ ~tooDense(rows, columns, mines)
    /\ i' = 0
    /\ pc' = "plant"
    /\ UNCHANGED <<config, matrix, safeCells, stack, recurse, firstCell, result, run>>

\* revealSurroundings(c, rec) on a masked zero cell of the empty or the
\* populated matrix
TestRevealSurroundings ==
    /\ pc \in {"generated", "pick"}
    /\ \E c \in Coords(matrix), rec \in BOOLEAN :
          /\ At(matrix, c.x, c.y) = typesNumbers(0)
          /\ stack' = <<c>>
          /\ firstCell' = c
          /\ recurse' = rec
    /\ pc' = "surround"
    /\ UNCHANGED <<config, matrix, safeCells, i, result, run>>

Next ==
    \/ Start
    \/ PlantMine
    \/ PlantMinesReturn
    \/ Populate
    \/ RevealFirstDisabled
    \/ RevealFirstZero
    \/ RevealFirstAny
    \/ RevealSurroundings
    \/ Render
    \/ TestGenerateEmptyMatrix
    \/ TestPlantMines
    \/ TestRevealSurroundings

Spec == Init /\ [][Next]_vars

\* the same instance, with start() called up to MaxRuns times
NextRerun == Next \/ StartAgain

SpecRerun == Init /\ [][NextRerun]_vars


\* ---- the run under fair scheduling ----

\* an iteration of plantMines whose draw is a cell that holds no mine yet
PlantNewMine == PlantMine /\ i' = i + 1

\* the steps a call runs through once it has begun: the code is synchronous, so
\* each stage that can run does run, and fair draws eventually hit a free cell
RunSteps ==
    \/ PlantNewMine
    \/ PlantMinesReturn
    \/ Populate
    \/ RevealFirstDisabled
    \/ RevealFirstZero
    \/ RevealFirstAny
    \/ RevealSurroundings
    \/ Render

\* an instance driven by a client: start() and the stages it runs
InitStart == Init /\ caller = "start"

NextStart ==
    \/ Start
    \/ PlantMine
    \/ PlantMinesReturn
    \/ Populate
    \/ RevealFirstDisabled
    \/ RevealFirstZero
    \/ RevealFirstAny
    \/ RevealSurroundings
    \/ Render

SpecFair == InitStart /\ [][NextStart]_vars /\ WF_vars(RunSteps)

\* ---- vocabulary of the properties ----

\* a revealed cell: the name between colons, without the spoiler bars
plain(sp, str) == IF sp THEN <<" ", ":", str, ":", " ">> ELSE <<":", str, ":">>

Names == {numberNames[k] : k \in 1..9} \cup {emote}

\* the content of a cell whatever its wrapper: the name in its middle, or
\* "garbage" if it is neither a spoiler nor a plain token of a name
ContentOf(cell) ==
    IF Len(cell) % 2 = 0 THEN "garbage"
    ELSE LET n == cell[(Len(cell) + 1) \div 2]
         IN  IF n \in Names /\ cell \in {spoilerize(spaces, n), plain(spaces, n)}
                 THEN n
                 ELSE "garbage"

Masked(cell) ==
    ContentOf(cell) # "garbage" /\ cell = spoilerize(spaces, ContentOf(cell))

Unmasked(cell) ==
    ContentOf(cell) # "garbage" /\ cell = plain(spaces, ContentOf(cell))

HoldsMine(cell) == ContentOf(cell) = emote

\* the neighbour count a cell holds, -1 if it holds none
CountOf(cell) ==
    LET n == ContentOf(cell)
    IN  IF \E k \in 0..8 : n = numberNames[k + 1]
            THEN CHOOSE k \in 0..8 : n = numberNames[k + 1]
            ELSE -1

Cells(m) == {c \in [x : 0..(Len(m) - 1), y : 0..(columns - 1)] : TRUE}

Adjacent(c, d) ==
    /\ c # d
    /\ c.x - d.x \in {-1, 0, 1}
    /\ c.y - d.y \in {-1, 0, 1}

MineCells(m) == {c \in Cells(m) : HoldsMine(At(m, c.x, c.y))}

UnmaskedCells(m) == {c \in Cells(m) : Unmasked(At(m, c.x, c.y))}

ZeroAt(m, c) == c \in Cells(m) /\ ContentOf(At(m, c.x, c.y)) = "zero"

\* the cells of Z joined to a cell of S by a chain of adjacent cells of Z
RECURSIVE Grow(_, _)
Grow(Z, S) ==
    LET T == S \cup {d \in Z : \E c \in S : Adjacent(c, d)}
    IN  IF T = S THEN S ELSE Grow(Z, T)

\* the zero cells joined to the zero cell `seed` by a chain of adjacent zero cells
ZeroRegion(m, seed) ==
    IF ZeroAt(m, seed) THEN Grow({d \in Cells(m) : ZeroAt(m, d)}, {seed}) ELSE {}

\* the seed, its zero region and the neighbours of the region
FloodArea(m, seed) ==
    LET Z == ZeroRegion(m, seed)
    IN  {seed} \cup Z \cup {d \in Cells(m) : \E c \in Z : Adjacent(c, d)}

\* start() has returned a board
StartReturnedBoard == caller = "start" /\ pc = "done" /\ result.kind # "null"


\* ---- C1 ----
\* C1: when a first call of start() returns a board, exactly `mines` cells of
\* the matrix hold a mine and each of the other rows*columns - mines cells
\* holds a neighbour count in 0..8, whatever the draws were.
C1_MineAndCountCells ==
    (StartReturnedBoard /\ run = 1) =>
        LET M == MineCells(matrix)
        IN  /\ Cardinality(M) = mines
            /\ Cardinality(Cells(matrix) \ M) = rows * columns - mines
            /\ \A c \in Cells(matrix) \ M : CountOf(At(matrix, c.x, c.y)) \in 0..8

\* a first start() has returned a board with two mines
C1_Witness ==
    /\ StartReturnedBoard
    /\ run = 1
    /\ mines = 2
    /\ Cardinality(MineCells(matrix)) = 2

\* ---- C2 ----
\* C2: populate() leaves every mine a mine and gives every other cell the masked
\* count of the mines among its in-bounds neighbours, on every board and layout.
C2_NeighborCounts ==
    [][pc = "populate" =>
          /\ Len(matrix') = Len(matrix)
          /\ \A c \in Cells(matrix) :
                IF At(matrix, c.x, c.y) = typesMine
                    THEN At(matrix', c.x, c.y) = typesMine
                    ELSE At(matrix', c.x, c.y) =
                            typesNumbers(Cardinality(
                                {d \in Cells(matrix) :
                                    Adjacent(c, d) /\ At(matrix, d.x, d.y) = typesMine}))
      ]_vars

\* a populated 3x3 board whose centre and top edge count two mines and whose
\* corner (2,2) counts none
C2_Witness ==
    /\ pc \in {"reveal", "pick"}
    /\ rows = 3
    /\ columns = 3
    /\ At(matrix, 1, 1) = typesNumbers(2)
    /\ At(matrix, 2, 2) = typesNumbers(0)
    /\ At(matrix, 0, 1) = typesNumbers(2)

\* ---- C3 ----
\* what start() returns is a board of the instance: its matrix, or its text with
\* one token per cell
RealBoard(r) ==
    \/ /\ r.kind = "matrix"
       /\ r.grid = matrix
       /\ Len(r.grid) > 0
    \/ /\ r.kind = "string"
       /\ Cardinality({k \in 1..Len(r.text) : r.text[k] \in Names}) =
              Len(matrix) * columns
       /\ Len(r.text) > 0

\* C3: start() returns null, with matrix and safeCells left empty, exactly when
\* rows*columns <= mines*2, and a real board otherwise.
C3_ValidityGate ==
    (caller = "start" /\ pc = "done" /\ run = 1) =>
        /\ (result.kind = "null") <=> (rows * columns <= mines * 2)
        /\ result.kind = "null" => (matrix = <<>> /\ safeCells = <<>>)
        /\ result.kind # "null" => RealBoard(result)

\* start() has returned null on the boundary rows*columns = mines*2
C3_Witness ==
    /\ caller = "start"
    /\ pc = "done"
    /\ result.kind = "null"
    /\ rows * columns = mines * 2
    /\ matrix = <<>>

\* ---- C4 ----
\* C4: an instance constructed with mines = 0 is valid and start() returns a
\* board without a mine in which every cell is a zero.
C4_ZeroMinesBoard ==
    (caller = "start" /\ pc = "done" /\ opts.mines = 0) =>
        /\ result.kind # "null"
        /\ RealBoard(result)
        /\ MineCells(matrix) = {}
        /\ \A c \in Cells(matrix) : CountOf(At(matrix, c.x, c.y)) = 0


\* ---- C5 ----
\* a flood fill from a zero seed with recursion on is running or has returned:
\* revealFirst took its zero branch, or a test called revealSurroundings(c, true)
FloodFromZero ==
    /\ pc \in {"surround", "render", "done"}
    /\ firstCell # noCell
    /\ ZeroAt(matrix, firstCell)
    /\ IF caller = "start" THEN revealFirstCell /\ zeroFirstCell ELSE recurse

\* C5: a flood fill from a zero seed never unmasks a mine, and unmasks only the
\* seed, zero cells chained to it by adjacent zero cells, and their neighbours.
C5_FloodFillSound ==
    FloodFromZero =>
        LET area == FloodArea(matrix, firstCell)
        IN  \A c \in UnmaskedCells(matrix) :
                /\ ~HoldsMine(At(matrix, c.x, c.y))
                /\ c \in area

\* a flood fill has returned and left a safe cell and a mine masked
C5_Witness ==
    /\ FloodFromZero
    /\ pc = "done"
    /\ MineCells(matrix) # {}
    /\ Cardinality(UnmaskedCells(matrix)) > 2
    /\ \E c \in Cells(matrix) :
          /\ ~HoldsMine(At(matrix, c.x, c.y))
          /\ Masked(At(matrix, c.x, c.y))

\* ---- C6 ----
\* C6: when a flood fill from a zero seed with recursion on has returned, every
\* zero cell chained to the seed and every neighbour of such a cell is unmasked.
C6_FloodFillComplete ==
    (FloodFromZero /\ pc \in {"render", "done"}) =>
        \A c \in FloodArea(matrix, firstCell) : Unmasked(At(matrix, c.x, c.y))

\* a test's flood fill from the centre of a 3x3 board without mines has
\* returned, and every cell is unmasked
C6_Witness ==
    /\ FloodFromZero
    /\ pc = "done"
    /\ caller = "test"
    /\ rows = 3
    /\ columns = 3
    /\ firstCell = [x |-> 1, y |-> 1]
    /\ MineCells(matrix) = {}
    /\ UnmaskedCells(matrix) = Cells(matrix)

\* ---- C7 ----
\* revealFirst is about to run with both flags on and a zero safe cell exists
ZeroStartCase ==
    /\ pc = "reveal"
    /\ revealFirstCell
    /\ zeroFirstCell
    /\ \E k \in 1..Len(safeCells) : ZeroAt(matrix, safeCells[k])

\* C7: with both flags on and a zero safe cell on the board, revealFirst returns
\* the coordinate of a cell that held a masked zero and is unmasked by it, and
\* more than one cell ends unmasked.
C7_ZeroStart ==
    /\ [][ZeroStartCase =>
             /\ firstCell' \in Cells(matrix)
             /\ At(matrix, firstCell'.x, firstCell'.y) = typesNumbers(0)
             /\ At(matrix', firstCell'.x, firstCell'.y) = plain(spaces, "zero")
             /\ pc' = "surround"
         ]_vars
    /\ []((caller = "start" /\ pc \in {"render", "done"}
             /\ revealFirstCell /\ zeroFirstCell
             /\ \E c \in Cells(matrix) : ZeroAt(matrix, c)) =>
            /\ At(matrix, firstCell.x, firstCell.y) = plain(spaces, "zero")
            /\ Cardinality(UnmaskedCells(matrix)) > 1)

\* start() has returned after a zero start on a board with mines and non-zero
\* counts
C7_Witness ==
    /\ StartReturnedBoard
    /\ revealFirstCell
    /\ zeroFirstCell
    /\ MineCells(matrix) # {}
    /\ At(matrix, firstCell.x, firstCell.y) = plain(spaces, "zero")
    /\ Cardinality(UnmaskedCells(matrix)) > 1

\* ---- C8 ----
\* revealFirst is about to run with reveal-first on and either force-zero-start
\* off or no zero safe cell on the board
AnyStartCase ==
    /\ pc = "reveal"
    /\ revealFirstCell
    /\ \/ ~zeroFirstCell
       \/ ~\E c \in Cells(matrix) : ZeroAt(matrix, c)

\* C8: in that case revealFirst unmasks exactly one cell, which holds no mine,
\* leaves every other cell masked, runs no flood fill and returns that cell.
C8_SingleReveal ==
    [][AnyStartCase =>
          /\ pc' = "render"
          /\ stack' = <<>>
          /\ UnmaskedCells(matrix) = {}
          /\ UnmaskedCells(matrix') = {firstCell'}
          /\ ~HoldsMine(At(matrix', firstCell'.x, firstCell'.y))
          /\ \A c \in Cells(matrix) \ {firstCell'} :
                /\ At(matrix', c.x, c.y) = At(matrix, c.x, c.y)
                /\ Masked(At(matrix', c.x, c.y))
      ]_vars

\* start() has returned a 2x2 board with one mine and force-zero-start on: no
\* zero cell exists and one cell is unmasked
C8_Witness ==
    /\ StartReturnedBoard
    /\ revealFirstCell
    /\ zeroFirstCell
    /\ rows = 2
    /\ columns = 2
    /\ mines = 1
    /\ Cardinality(UnmaskedCells(matrix)) = 1

\* ---- C9 ----
\* C9: in every step of revealFirst and of revealSurroundings an unmasked cell
\* stays as it is, a cell that changes goes from masked to unmasked, and no
\* cell's content changes.
C9_RevealMonotonic ==
    [][(pc \in {"reveal", "surround"}) =>
          /\ Len(matrix') = Len(matrix)
          /\ \A c \in Cells(matrix) :
                /\ ContentOf(At(matrix, c.x, c.y)) # "garbage"
                /\ ContentOf(At(matrix', c.x, c.y)) = ContentOf(At(matrix, c.x, c.y))
                /\ \/ ~Unmasked(At(matrix, c.x, c.y))
                   \/ At(matrix', c.x, c.y) = At(matrix, c.x, c.y)
                /\ \/ At(matrix', c.x, c.y) = At(matrix, c.x, c.y)
                   \/ /\ Masked(At(matrix, c.x, c.y))
                      /\ Unmasked(At(matrix', c.x, c.y))
      ]_vars

\* a flood fill is in its second or later call: it meets cells already unmasked
C9_Witness ==
    /\ pc = "surround"
    /\ caller = "start"
    /\ Cardinality(UnmaskedCells(matrix)) > 3
    /\ MineCells(matrix) # {}
    /\ \E c \in Cells(matrix) :
          /\ inRange(Head(stack), c.x, c.y)
          /\ Unmasked(At(matrix, c.x, c.y))

\* ---- C10 ----
\* C10: after every call of start() that passes the gate, the first or a later
\* one, the matrix has `rows` rows of `columns` cells and `mines` mines, and
\* safeCells holds each of the rows*columns - mines other coordinates once.
C10_FreshGridEachRun ==
    StartReturnedBoard =>
        LET M == MineCells(matrix)
        IN  /\ Len(matrix) = rows
            /\ \A r \in 1..Len(matrix) : Len(matrix[r]) = columns
            /\ Cardinality(M) = mines
            /\ Len(safeCells) = rows * columns - mines
            /\ {safeCells[k] : k \in 1..Len(safeCells)} = Cells(matrix) \ M


\* ---- C11 ----
\* the elements of sequence q are pairwise distinct
NoDuplicates(q) == \A a, b \in 1..Len(q) : a # b => q[a] # q[b]

\* C11: a run of start() that passes the gate ends: plantMines returns with
\* exactly `mines` cells marked once draws are fair, and the flood fill ends,
\* since a call records a cell as a seed only if the cell was a masked zero and
\* the call unmasks it, so no cell is pending twice and each call either
\* unmasks a cell or uses up a pending call.
C11_RunTerminates ==
    /\ (caller = "start" /\ pc = "plant") ~> (caller = "start" /\ pc = "done")
    /\ [][(caller = "start" /\ pc = "plant" /\ pc' = "populate") =>
             /\ i = mines
             /\ Cardinality(MineCells(matrix)) = mines
         ]_vars
    /\ [][(caller = "start" /\ pc = "surround") =>
             /\ NoDuplicates(stack')
             /\ \A k \in 1..(Len(stack') - Len(stack) + 1) :
                   /\ At(matrix, stack'[k].x, stack'[k].y) = typesNumbers(0)
                   /\ Unmasked(At(matrix', stack'[k].x, stack'[k].y))
             /\ \A k \in 1..Len(stack') :
                   Unmasked(At(matrix', stack'[k].x, stack'[k].y))
             /\ \/ Cardinality(UnmaskedCells(matrix')) > Cardinality(UnmaskedCells(matrix))
                \/ /\ matrix' = matrix
                   /\ Len(stack') < Len(stack)
         ]_vars

\* start() has returned after two mines were planted and a flood fill of
\* several calls ran
C11_Witness ==
    /\ StartReturnedBoard
    /\ mines = 2
    /\ revealFirstCell
    /\ zeroFirstCell
    /\ Cardinality({c \in UnmaskedCells(matrix) : ZeroAt(matrix, c)}) > 1

====
